---- MODULE Spec2Model ----
(***************************************************************************)
(* The server-side data-access layer of the survey application: cached     *)
(* permission checks (webhook, attribute class), the action service        *)
(* (createAction, the action lists and the action counts) and the          *)
(* rate-limited PostHog event.  Every read is wrapped in the framework's   *)
(* tag-keyed, time-based cache (unstable_cache); writes invalidate tags.   *)
(*                                                                         *)
(* A cached read is not one step: the cache lookup, each awaited database  *)
(* operation and the store of the result are separate steps, and writes,   *)
(* invalidations and the clock can run between them.                       *)
(*                                                                         *)
(* Time is in milliseconds since an arbitrary origin (Date.now()).         *)
(***************************************************************************)
EXTENDS Integers, Sequences, FiniteSets, TLC

VARIABLES
  now,               \* Date.now()
  cache,             \* the framework cache: key string -> entry
  ret,               \* what the read that just finished returned or threw (NoRet after any other step)
  reads,             \* the cached reads in flight: reader -> frame
  webhooks,          \* webhook id -> environment id, or Null when it does not exist
  attributeClasses,  \* attribute class id -> environment id, or Null
  memberships,       \* the <<userId, environmentId>> pairs with access
  actionClasses,     \* table ActionClass, in insertion order
  actions,           \* table Action, in insertion order
  calls,             \* the createAction calls in flight: caller -> frame
  captured,          \* the events PostHog received, in order
  sends,             \* the sendFreeLimitReachedEventToPosthogBiWeekly calls in flight
  ticks              \* how many times the clock has been advanced

vars == <<now, cache, ret, reads, webhooks, attributeClasses, memberships,
          actionClasses, actions, calls, captured, sends, ticks>>

accessVars == <<webhooks, attributeClasses, memberships>>
actionVars == <<actionClasses, actions, calls>>
posthogVars == <<captured, sends>>

Null == "null"

\* ------------------------------------------------------------------ bounds

MaxTicks == 1

\* ------------------------------------------------------------ time constants

SecondMs == 1000
HourMs == 60 * 60 * 1000
DayMs == 24 * 60 * 60 * 1000
WeekMs == 7 * 24 * 60 * 60 * 1000

\* ../constants: thirty minutes, in seconds as the cache's revalidate option.
SERVICES_REVALIDATION_INTERVAL == 60 * 30

\* ------------------------------------------------------------- validation

\* The well-formed ids (cuid2) the model uses; every other string fails ZId.
UserIds == {"u1", "u2"}
EnvironmentIds == {"e1", "e2"}
WebhookIds == {"w1"}
AttributeClassIds == {"a1"}
PersonIds == {"p1", "p2", "p3"}
ActionClassIds == {"ac1", "ac2", "ac3", "ac4"}
BadId == "not a cuid"

ZId(value) ==
  value \in UserIds \cup EnvironmentIds \cup WebhookIds \cup AttributeClassIds
            \cup PersonIds \cup ActionClassIds

\* ----------------------------------------------------- the framework cache

NoRet == [op |-> "none"]

Idle == [pc |-> "idle"]

ReadFrame(r) == IF r \in DOMAIN reads THEN reads[r] ELSE Idle

\* reads without the frame of reader r: its call is over.
Finished(r) == [x \in DOMAIN reads \ {r} |-> reads[x]]

\* An entry is served while it is younger than its revalidate option (seconds).
Fresh(key, revalidate) ==
  /\ key \in DOMAIN cache
  /\ now - cache[key].storedAt < revalidate * SecondMs

\* An entry keeps the value, its tags and when it was stored.  rows (the number of
\* Action rows when it was stored) and seen (what the callback observed when it
\* computed the value) are history the program does not read.
Stored(key, value, tags, seen) ==
  [k \in DOMAIN cache \cup {key} |->
     IF k = key
     THEN [value |-> value, tags |-> tags, storedAt |-> now, rows |-> Len(actions),
           seen |-> seen]
     ELSE cache[k]]

\* revalidateTag for each tag of `tags`: every entry carrying one is dropped.
Revalidated(c, tags) ==
  [k \in {j \in DOMAIN c : c[j].tags \cap tags = {}} |-> c[k]]

\* ------------------------------------------------- shapes of cached values

\* A Date as the callback returns it, and as the cache's JSON keeps it.
DateOf(ms) == [kind |-> "Date", ms |-> ms]
JsonDate(d) == [kind |-> "string", ms |-> d.ms]
JsonActions(list) == [i \in DOMAIN list |-> [list[i] EXCEPT !.createdAt = JsonDate(@)]]

\* formatDateFields(action, ZAction): a date kept as a string becomes a Date again.
formatDateFields(action) == [action EXCEPT !.createdAt = DateOf(@.ms)]

ListOps == {"getActionsByPersonId", "getActionsByEnvironmentId"}

DaysAgoOps == {"getLastOccurrenceDaysAgo", "getFirstOccurrenceDaysAgo"}

\* What the caller gets from a value of the cache or of the callback: the lists go
\* through formatDateFields element by element, the other reads return it as it is.
Deserialized(op, value) ==
  IF op \in ListOps THEN [i \in DOMAIN value |-> formatDateFields(value[i])] ELSE value

\* differenceInDays(later, earlier): the full days between two instants.
differenceInDays(later, earlier) == (later - earlier) \div DayMs

\* The callback's result once its last await has resumed: the two days-ago reads
\* take new Date() then (<<days>>, or <<>> for null), the other reads have their
\* value from the query.
Resumed(f) ==
  IF f.op \in DaysAgoOps
  THEN (IF f.value = <<>> THEN <<>> ELSE <<differenceInDays(now, f.value[1])>>)
  ELSE f.value

\* The value as the cache keeps it (JSON).
Wire(op, value) == IF op \in ListOps THEN JsonActions(value) ELSE value

\* unstable_cache(cb, [key], {tags, revalidate})(), first step: the lookup.  A fresh
\* entry is returned and the callback does not run.  Otherwise the callback starts
\* with validateInputs: invalid arguments throw, nothing is stored; valid ones leave
\* the call in flight.  expired: an entry was there but too old.
UnstableCacheLookup(r, op, args, key, tags, revalidate, valid) ==
  /\ ReadFrame(r).pc = "idle"
  /\ IF Fresh(key, revalidate)
     THEN /\ ret' = [op |-> op, args |-> args, status |-> "ok",
                     value |-> Deserialized(op, cache[key].value), hit |-> TRUE,
                     dbOps |-> 0, stored |-> FALSE, at |-> now,
                     storedAt |-> cache[key].storedAt, rows |-> cache[key].rows,
                     expired |-> FALSE, seen |-> cache[key].seen]
          /\ reads' = Finished(r)
     ELSE IF ~valid
     THEN /\ ret' = [op |-> op, args |-> args, status |-> "error",
                     value |-> "ValidationError", hit |-> FALSE,
                     dbOps |-> 0, stored |-> FALSE, at |-> now,
                     storedAt |-> now, rows |-> Len(actions),
                     expired |-> (key \in DOMAIN cache), seen |-> [at |-> now]]
          /\ reads' = Finished(r)
     ELSE /\ ret' = NoRet
          /\ reads' = (r :> [pc |-> "missed", op |-> op, args |-> args, key |-> key,
                             tags |-> tags, revalidate |-> revalidate,
                             expired |-> (key \in DOMAIN cache),
                             value |-> Null, dbOps |-> 0, seen |-> [at |-> now]])
                      @@ reads
  /\ UNCHANGED <<now, cache, accessVars, actionVars, posthogVars, ticks>>

\* The frame once the callback has its value; seen is what it observed.
Computed(f, value, seen) ==
  [f EXCEPT !.pc = "computed", !.value = value, !.dbOps = @ + 1, !.seen = seen]

\* Last step: the callback's last await resumes, its result is stored under the key
\* with the tags, and returned.
UnstableCacheStore(r) ==
  /\ ReadFrame(r).pc = "computed"
  /\ LET f == reads[r]
         value == Resumed(f)
     IN /\ cache' = Stored(f.key, Wire(f.op, value), f.tags, f.seen)
        /\ ret' = [op |-> f.op, args |-> f.args, status |-> "ok",
                   value |-> Deserialized(f.op, value), hit |-> FALSE,
                   dbOps |-> f.dbOps, stored |-> TRUE, at |-> now,
                   storedAt |-> now, rows |-> Len(actions),
                   expired |-> f.expired, seen |-> f.seen]
  /\ reads' = Finished(r)
  /\ UNCHANGED <<now, accessVars, actionVars, posthogVars, ticks>>

\* ------------------------------------------------------- permission checks

webhookCacheTagById(webhookId) == "webhooks-" \o webhookId

attributeClassTagById(attributeClassId) == "attributeClasses-" \o attributeClassId

getWebhook(webhookId) ==
  IF webhookId \in DOMAIN webhooks THEN webhooks[webhookId] ELSE Null

getAttributeClass(attributeClassId) ==
  IF attributeClassId \in DOMAIN attributeClasses
  THEN attributeClasses[attributeClassId] ELSE Null

hasUserEnvironmentAccess(userId, environmentId) ==
  <<userId, environmentId>> \in memberships

canUserAccessWebhookKey(userId, webhookId) ==
  "canUserAccessWebhook-" \o userId \o "-" \o webhookId

\* Lines 11-14, 28-32: the lookup, and validateInputs on a miss.
canUserAccessWebhook(r, userId, webhookId) ==
  /\ UnstableCacheLookup(r, "canUserAccessWebhook", <<userId, webhookId>>,
                      canUserAccessWebhookKey(userId, webhookId),
                      {webhookCacheTagById(webhookId)},
                      SERVICES_REVALIDATION_INTERVAL,
                      ZId(userId) /\ ZId(webhookId))

\* Lines 17-18: await getWebhook; no webhook, and the answer is false.
canUserAccessWebhookGetWebhook(r) ==
  /\ ReadFrame(r).pc = "missed"
  /\ reads[r].op = "canUserAccessWebhook"
  /\ LET f == reads[r]
         webhook == getWebhook(f.args[2])
     IN reads' = [reads EXCEPT ![r] =
                    IF webhook = Null
                    THEN Computed(f, FALSE, [at |-> now, entity |-> Null, access |-> FALSE])
                    ELSE [f EXCEPT !.pc = "haveEntity", !.dbOps = @ + 1,
                                   !.seen = [at |-> now, entity |-> webhook,
                                             access |-> FALSE]]]
  /\ ret' = NoRet
  /\ UNCHANGED <<now, cache, accessVars, actionVars, posthogVars, ticks>>

\* Mutant: the environment check is skipped, any existing webhook is accessible.
WebhookDecisionNoEnvCheck(hasAccessToEnvironment) == TRUE

\* Lines 21-23: false without access to the environment, true with it.
WebhookDecision(hasAccessToEnvironment) == hasAccessToEnvironment

\* Lines 20-23: await hasUserEnvironmentAccess(userId, webhook.environmentId).
canUserAccessWebhookHasAccess(r) ==
  /\ ReadFrame(r).pc = "haveEntity"
  /\ reads[r].op = "canUserAccessWebhook"
  /\ LET f == reads[r]
         hasAccessToEnvironment == hasUserEnvironmentAccess(f.args[1], f.seen.entity)
     IN reads' = [reads EXCEPT ![r] =
                    Computed(f, WebhookDecision(hasAccessToEnvironment),
                             [at |-> now, entity |-> f.seen.entity,
                              access |-> hasAccessToEnvironment])]
  /\ ret' = NoRet
  /\ UNCHANGED <<now, cache, accessVars, actionVars, posthogVars, ticks>>

canUserAccessAttributeClassKey(userId, attributeClassId) ==
  "canUserAccessAttributeClass-" \o userId \o "-" \o attributeClassId

\* Lines 12-18, 34-35: the lookup, and validateInputs on a miss.
canUserAccessAttributeClass(r, userId, attributeClassId) ==
  /\ UnstableCacheLookup(r, "canUserAccessAttributeClass", <<userId, attributeClassId>>,
                      canUserAccessAttributeClassKey(userId, attributeClassId),
                      {attributeClassTagById(attributeClassId)},
                      SERVICES_REVALIDATION_INTERVAL,
                      ZId(userId) /\ ZId(attributeClassId))

\* Lines 19-23: false for an empty userId; await getAttributeClass; no attribute
\* class, and the answer is false.
canUserAccessAttributeClassGetAttributeClass(r) ==
  /\ ReadFrame(r).pc = "missed"
  /\ reads[r].op = "canUserAccessAttributeClass"
  /\ LET f == reads[r]
         attributeClass == getAttributeClass(f.args[2])
     IN reads' = [reads EXCEPT ![r] =
                    IF f.args[1] = ""
                    THEN [f EXCEPT !.pc = "computed", !.value = FALSE,
                                   !.seen = [at |-> now, entity |-> Null, access |-> FALSE]]
                    ELSE IF attributeClass = Null
                    THEN Computed(f, FALSE, [at |-> now, entity |-> Null, access |-> FALSE])
                    ELSE [f EXCEPT !.pc = "haveEntity", !.dbOps = @ + 1,
                                   !.seen = [at |-> now, entity |-> attributeClass,
                                             access |-> FALSE]]]
  /\ ret' = NoRet
  /\ UNCHANGED <<now, cache, accessVars, actionVars, posthogVars, ticks>>

\* Lines 25-28: await hasUserEnvironmentAccess(userId, attributeClass.environmentId).
canUserAccessAttributeClassHasAccess(r) ==
  /\ ReadFrame(r).pc = "haveEntity"
  /\ reads[r].op = "canUserAccessAttributeClass"
  /\ LET f == reads[r]
         hasAccessToEnvironment == hasUserEnvironmentAccess(f.args[1], f.seen.entity)
     IN reads' = [reads EXCEPT ![r] =
                    Computed(f, hasAccessToEnvironment,
                             [at |-> now, entity |-> f.seen.entity,
                              access |-> hasAccessToEnvironment])]
  /\ ret' = NoRet
  /\ UNCHANGED <<now, cache, accessVars, actionVars, posthogVars, ticks>>

\* The writes of the other services that the checks observe.
SetWebhook(webhookId, environmentId) ==
  /\ webhooks' = [webhooks EXCEPT ![webhookId] = environmentId]
  /\ cache' = Revalidated(cache, {webhookCacheTagById(webhookId)})
  /\ ret' = NoRet
  /\ UNCHANGED <<now, reads, attributeClasses, memberships, actionVars, posthogVars, ticks>>

SetAttributeClass(attributeClassId, environmentId) ==
  /\ attributeClasses' = [attributeClasses EXCEPT ![attributeClassId] = environmentId]
  /\ cache' = Revalidated(cache, {attributeClassTagById(attributeClassId)})
  /\ ret' = NoRet
  /\ UNCHANGED <<now, reads, webhooks, memberships, actionVars, posthogVars, ticks>>

GrantAccess(userId, environmentId) ==
  /\ <<userId, environmentId>> \notin memberships
  /\ memberships' = memberships \cup {<<userId, environmentId>>}
  /\ ret' = NoRet
  /\ UNCHANGED <<now, cache, reads, webhooks, attributeClasses, actionVars, posthogVars, ticks>>

RevokeAccess(userId, environmentId) ==
  /\ <<userId, environmentId>> \in memberships
  /\ memberships' = memberships \ {<<userId, environmentId>>}
  /\ ret' = NoRet
  /\ UNCHANGED <<now, cache, reads, webhooks, attributeClasses, actionVars, posthogVars, ticks>>

\* The clock advances by dt milliseconds, at most limit times.
Tick(dt, limit) ==
  /\ ticks < limit
  /\ ticks' = ticks + 1
  /\ now' = now + dt
  /\ ret' = NoRet
  /\ UNCHANGED <<cache, reads, accessVars, actionVars, posthogVars>>

\* The same, while the clock stays within horizon.
TickWithin(dt, limit, horizon) ==
  /\ dt <= horizon - now
  /\ Tick(dt, limit)

AccessTicks ==
  {SERVICES_REVALIDATION_INTERVAL * SecondMs - 1, SERVICES_REVALIDATION_INTERVAL * SecondMs}

InitCache ==
  /\ cache = [k \in {} |-> Null]
  /\ ret = NoRet
  /\ reads = <<>>
  /\ ticks = 0

InitAccessTables ==
  /\ webhooks = [w \in WebhookIds |-> Null]
  /\ attributeClasses = [a \in AttributeClassIds |-> Null]
  /\ memberships = {}

InitActionTables ==
  /\ actionClasses = <<>>
  /\ actions = <<>>
  /\ calls = <<>>

InitPosthog ==
  /\ captured = <<>>
  /\ sends = <<>>

InitAccess == now = 0 /\ InitCache /\ InitAccessTables /\ InitActionTables /\ InitPosthog

AccessUsers == {"u1"}

Readers == {1}

NextAccess ==
  \/ \E r \in Readers, u \in AccessUsers \cup {BadId}, w \in WebhookIds \cup {BadId} :
       canUserAccessWebhook(r, u, w)
  \/ \E r \in Readers : canUserAccessWebhookGetWebhook(r)
  \/ \E r \in Readers : canUserAccessWebhookHasAccess(r)
  \/ \E r \in Readers, u \in AccessUsers \cup {BadId}, a \in AttributeClassIds \cup {BadId} :
       canUserAccessAttributeClass(r, u, a)
  \/ \E r \in Readers : canUserAccessAttributeClassGetAttributeClass(r)
  \/ \E r \in Readers : canUserAccessAttributeClassHasAccess(r)
  \/ \E r \in Readers : UnstableCacheStore(r)
  \/ \E w \in WebhookIds, e \in EnvironmentIds \cup {Null} : SetWebhook(w, e)
  \/ \E a \in AttributeClassIds, e \in EnvironmentIds \cup {Null} : SetAttributeClass(a, e)
  \/ \E u \in AccessUsers, e \in EnvironmentIds : GrantAccess(u, e)
  \/ \E u \in AccessUsers, e \in EnvironmentIds : RevokeAccess(u, e)
  \/ \E dt \in AccessTicks : Tick(dt, MaxTicks)

SpecAccess == InitAccess /\ [][NextAccess]_vars

\* ---------------------------------------------------------- action service

\* Rows per page of a paginated list (../constants), scaled down to the model.
ITEMS_PER_PAGE == 2

\* At most this many Action rows in the tables the lists are taken over.
MaxActions == 3

\* At most this many createAction calls get to insert a row.
MaxWrites == 2

\* The concurrent callers of createAction and of the PostHog event.
NumCallers == 2

\* Table Person, keyed by its unique (environmentId, userId).
PersonOf == (<<"e1", "u1">> :> "p1") @@ (<<"e1", "u2">> :> "p2") @@ (<<"e2", "u1">> :> "p3")

\* The ids the database generates for the rows it inserts.
ActionClassIdAt(i) == "ac" \o ToString(i)
ActionIdAt(i) == "x" \o ToString(i)

\* A JavaScript page argument: undefined, a number, or (against the declared type)
\* a string spelling a number.
NoPage == [kind |-> "undefined", num |-> 0]
PageNumber(n) == [kind |-> "number", num |-> n]
PageString(n) == [kind |-> "string", num |-> n]

\* z.number().optional()
ZOptionalNumber(page) == page.kind \in {"undefined", "number"}

\* `${page}` in a template string.
TemplateOf(page) == IF page.kind = "undefined" THEN "undefined" ELSE ToString(page.num)

\* JavaScript truthiness of page: undefined and 0 are falsy, a non-empty string is
\* truthy.
Truthy(page) == page.kind = "string" \/ (page.kind = "number" /\ page.num # 0)

actionCacheTagByEnvironmentId(environmentId) == "environments-" \o environmentId \o "-actions"
actionCacheTagByPersonId(personId) == "environments-" \o personId \o "-actions"
actionClassCacheTagById(id) == "actionClass-" \o id

ActionClassById(id) ==
  LET found == {i \in DOMAIN actionClasses : actionClasses[i].id = id}
  IN IF found = {} THEN Null ELSE actionClasses[CHOOSE i \in found : TRUE]

\* orderBy createdAt desc: every order of the rows in which createdAt never
\* increases.  Rows of equal createdAt come in whatever order the database picks,
\* which can differ from one query to the next.
OrdersByCreatedAtDesc(rows) ==
  LET n == Len(rows)
      perms == {p \in [1..n -> 1..n] : \A i \in 1..n, j \in 1..n : p[i] = p[j] => i = j}
  IN {[i \in 1..n |-> rows[p[i]]] :
        p \in {q \in perms : \A i \in 1..n, j \in 1..n :
                               i < j => rows[q[i]].createdAt >= rows[q[j]].createdAt}}

Min(a, b) == IF a < b THEN a ELSE b

\* take and skip of findMany; 0 stands for undefined (no limit, no offset).
TakeOf(page) == IF Truthy(page) THEN ITEMS_PER_PAGE ELSE 0
SkipOf(page) == IF Truthy(page) THEN ITEMS_PER_PAGE * (page.num - 1) ELSE 0

\* prisma.action.findMany({where, orderBy: {createdAt: "desc"}, take, skip}),
\* mapped to TAction; ordered is the matching rows in the order the database gave.
FindManyActions(ordered, page) ==
  LET from == SkipOf(page) + 1
      to == IF TakeOf(page) = 0 THEN Len(ordered)
            ELSE Min(SkipOf(page) + TakeOf(page), Len(ordered))
      rows == SubSeq(ordered, from, to)
  IN [i \in DOMAIN rows |->
        [id |-> rows[i].id, createdAt |-> DateOf(rows[i].createdAt),
         personId |-> rows[i].personId,
         actionClass |-> ActionClassById(rows[i].actionClassId)]]

getActionsByPersonIdKey(personId, page) ==
  "getActionsByPersonId-" \o personId \o "-" \o TemplateOf(page)

\* Lines 24-27, 61-66: the lookup, and validateInputs on a miss.
getActionsByPersonId(r, personId, page) ==
  /\ UnstableCacheLookup(r, "getActionsByPersonId", <<personId, page>>,
                      getActionsByPersonIdKey(personId, page),
                      {actionCacheTagByPersonId(personId)},
                      SERVICES_REVALIDATION_INTERVAL,
                      ZId(personId) /\ ZOptionalNumber(page))

\* Lines 30-52: await prisma.action.findMany, where person.id is personId.
getActionsByPersonIdFindMany(r) ==
  /\ ReadFrame(r).pc = "missed"
  /\ reads[r].op = "getActionsByPersonId"
  /\ LET f == reads[r]
         ofPerson(row) == row.personId = f.args[1]
     IN \E ordered \in OrdersByCreatedAtDesc(SelectSeq(actions, ofPerson)) :
          reads' = [reads EXCEPT ![r] =
                      Computed(f, FindManyActions(ordered, f.args[2]),
                               [at |-> now, rows |-> Len(actions)])]
  /\ ret' = NoRet
  /\ UNCHANGED <<now, cache, accessVars, actionVars, posthogVars, ticks>>

getActionsByEnvironmentIdKey(environmentId, page) ==
  "getActionsByEnvironmentId-" \o environmentId \o "-" \o TemplateOf(page)

\* Lines 72-75, 114-119: the lookup, and validateInputs on a miss.
getActionsByEnvironmentId(r, environmentId, page) ==
  /\ UnstableCacheLookup(r, "getActionsByEnvironmentId", <<environmentId, page>>,
                      getActionsByEnvironmentIdKey(environmentId, page),
                      {actionCacheTagByEnvironmentId(environmentId)},
                      SERVICES_REVALIDATION_INTERVAL,
                      ZId(environmentId) /\ ZOptionalNumber(page))

\* Lines 78-105: await prisma.action.findMany, where actionClass.environmentId is
\* environmentId.
getActionsByEnvironmentIdFindMany(r) ==
  /\ ReadFrame(r).pc = "missed"
  /\ reads[r].op = "getActionsByEnvironmentId"
  /\ LET f == reads[r]
         ofEnvironment(row) == ActionClassById(row.actionClassId).environmentId = f.args[1]
     IN \E ordered \in OrdersByCreatedAtDesc(SelectSeq(actions, ofEnvironment)) :
          reads' = [reads EXCEPT ![r] =
                      Computed(f, FindManyActions(ordered, f.args[2]),
                               [at |-> now, rows |-> Len(actions)])]
  /\ ret' = NoRet
  /\ UNCHANGED <<now, cache, accessVars, actionVars, posthogVars, ticks>>

\* ------------------------------------------------------------------ counts

WindowOps ==
  {"getActionCountInLastHour", "getActionCountInLast24Hours", "getActionCountInLast7Days"}

CalendarOps ==
  {"getActionCountInLastWeek", "getActionCountInLastMonth", "getActionCountInLastQuarter"}

\* The window of a windowed count, in milliseconds (lines 202, 228, 254).
WindowOf(op) ==
  CASE op = "getActionCountInLastHour" -> 60 * 60 * 1000
    [] op = "getActionCountInLast24Hours" -> 24 * 60 * 60 * 1000
    [] op = "getActionCountInLast7Days" -> 7 * 24 * 60 * 60 * 1000

\* ./utils getStartDateOfLastWeek, getStartDateOfLastMonth, getStartDateOfLastQuarter:
\* the start of the period before the current one, as a day number (days since the
\* origin); the periods are taken as 7, 30 and 90 days counted from the origin.
DaysOfPeriod(op) ==
  CASE op = "getActionCountInLastWeek" -> 7
    [] op = "getActionCountInLastMonth" -> 30
    [] op = "getActionCountInLastQuarter" -> 90

StartDayOfLastPeriod(op, ms) ==
  (((ms \div DayMs) \div DaysOfPeriod(op)) - 1) * DaysOfPeriod(op)

\* A count of one action class over all persons.
CountKey(op, actionClassId) == op \o "-" \o actionClassId

\* A count, or a days-ago read, of one action class and one person.
PersonCountKey(op, actionClassId, personId) ==
  op \o "-" \o actionClassId \o "-" \o personId

\* The lookup of a windowed count, and validateInputs on a miss.
ActionCount(r, op, actionClassId) ==
  UnstableCacheLookup(r, op, <<actionClassId>>, CountKey(op, actionClassId),
                      {actionClassCacheTagById(actionClassId)},
                      SERVICES_REVALIDATION_INTERVAL, ZId(actionClassId))

getActionCountInLastHour(r, actionClassId) ==
  /\ ActionCount(r, "getActionCountInLastHour", actionClassId)

getActionCountInLast24Hours(r, actionClassId) ==
  /\ ActionCount(r, "getActionCountInLast24Hours", actionClassId)

getActionCountInLast7Days(r, actionClassId) ==
  /\ ActionCount(r, "getActionCountInLast7Days", actionClassId)

\* The lookup of a read of one action class and one person, and validateInputs on a
\* miss.
PersonActionRead(r, op, actionClassId, personId) ==
  UnstableCacheLookup(r, op, <<actionClassId, personId>>,
                      PersonCountKey(op, actionClassId, personId),
                      {actionClassCacheTagById(actionClassId)},
                      SERVICES_REVALIDATION_INTERVAL,
                      ZId(actionClassId) /\ ZId(personId))

getActionCountInLastQuarter(r, actionClassId, personId) ==
  /\ PersonActionRead(r, "getActionCountInLastQuarter", actionClassId, personId)

getActionCountInLastMonth(r, actionClassId, personId) ==
  /\ PersonActionRead(r, "getActionCountInLastMonth", actionClassId, personId)

getActionCountInLastWeek(r, actionClassId, personId) ==
  /\ PersonActionRead(r, "getActionCountInLastWeek", actionClassId, personId)

getTotalOccurrencesForAction(r, actionClassId, personId) ==
  /\ PersonActionRead(r, "getTotalOccurrencesForAction", actionClassId, personId)

getLastOccurrenceDaysAgo(r, actionClassId, personId) ==
  /\ PersonActionRead(r, "getLastOccurrenceDaysAgo", actionClassId, personId)

getFirstOccurrenceDaysAgo(r, actionClassId, personId) ==
  /\ PersonActionRead(r, "getFirstOccurrenceDaysAgo", actionClassId, personId)

\* The callback builds the query: the cutoff is taken from the clock now, before the
\* database runs the count (new Date(Date.now() - window): lines 202, 228, 254;
\* getStartDateOfLast...(): lines 283, 313, 343).
ActionCountCutoff(r) ==
  /\ ReadFrame(r).pc = "missed"
  /\ reads[r].op \in WindowOps \cup CalendarOps
  /\ LET f == reads[r]
     IN reads' = [reads EXCEPT ![r] =
                    [f EXCEPT !.pc = "querying",
                              !.seen = [at |-> now,
                                        cutoff |-> IF f.op \in WindowOps
                                                   THEN now - WindowOf(f.op)
                                                   ELSE StartDayOfLastPeriod(f.op, now)]]]
  /\ ret' = NoRet
  /\ UNCHANGED <<now, cache, accessVars, actionVars, posthogVars, ticks>>

\* Mutant: the cutoff instant itself is left out (gt instead of gte).
CountSinceExclusive(actionClassId, cutoff) ==
  Cardinality({i \in DOMAIN actions :
                 /\ actions[i].actionClassId = actionClassId
                 /\ actions[i].createdAt > cutoff})

\* prisma.action.count({where: {actionClassId, createdAt: {gte: cutoff}}})
CountSince(actionClassId, cutoff) ==
  Cardinality({i \in DOMAIN actions :
                 /\ actions[i].actionClassId = actionClassId
                 /\ actions[i].createdAt >= cutoff})

\* prisma.action.count({where: {personId, actionClass: {id}, createdAt: {gte}}}), the
\* cutoff being the start of a day.
PersonCountSinceDay(actionClassId, personId, cutoffDay) ==
  Cardinality({i \in DOMAIN actions :
                 /\ actions[i].personId = personId
                 /\ actions[i].actionClassId = actionClassId
                 /\ actions[i].createdAt \div DayMs >= cutoffDay})

\* await prisma.action.count: the database runs the count of a windowed or calendar
\* read (lines 198-205, 224-231, 250-257, 276-286, 306-316, 336-346).
ActionCountQuery(r) ==
  /\ ReadFrame(r).pc = "querying"
  /\ LET f == reads[r]
         count == IF f.op \in WindowOps
                  THEN CountSince(f.args[1], f.seen.cutoff)
                  ELSE PersonCountSinceDay(f.args[1], f.args[2], f.seen.cutoff)
     IN reads' = [reads EXCEPT ![r] =
                    Computed(f, count, [at |-> f.seen.at, cutoff |-> f.seen.cutoff,
                                        rows |-> Len(actions)])]
  /\ ret' = NoRet
  /\ UNCHANGED <<now, cache, accessVars, actionVars, posthogVars, ticks>>

\* Lines 368-375: await prisma.action.count({where: {personId, actionClass: {id}}}).
getTotalOccurrencesForActionCount(r) ==
  /\ ReadFrame(r).pc = "missed"
  /\ reads[r].op = "getTotalOccurrencesForAction"
  /\ LET f == reads[r]
         count == Cardinality({i \in DOMAIN actions :
                                 /\ actions[i].personId = f.args[2]
                                 /\ actions[i].actionClassId = f.args[1]})
     IN reads' = [reads EXCEPT ![r] =
                    Computed(f, count, [at |-> now, rows |-> Len(actions)])]
  /\ ret' = NoRet
  /\ UNCHANGED <<now, cache, accessVars, actionVars, posthogVars, ticks>>

\* The createdAt values of the person's actions of the action class.
OccurrenceTimes(actionClassId, personId) ==
  {actions[i].createdAt : i \in {j \in DOMAIN actions :
                                   /\ actions[j].personId = personId
                                   /\ actions[j].actionClassId = actionClassId}}

\* Lines 398-413, 435-450: await prisma.action.findFirst, ordered by createdAt desc
\* (the last occurrence) or asc (the first): <<createdAt>>, or <<>> when there is
\* none.  The days are counted when the call resumes (lines 414, 451).
OccurrenceFindFirst(r) ==
  /\ ReadFrame(r).pc = "missed"
  /\ reads[r].op \in DaysAgoOps
  /\ LET f == reads[r]
         times == OccurrenceTimes(f.args[1], f.args[2])
         found == IF times = {} THEN <<>>
                  ELSE IF f.op = "getLastOccurrenceDaysAgo"
                  THEN <<CHOOSE t \in times : \A u \in times : u <= t>>
                  ELSE <<CHOOSE t \in times : \A u \in times : t <= u>>
     IN reads' = [reads EXCEPT ![r] =
                    Computed(f, found, [at |-> now, rows |-> Len(actions)])]
  /\ ret' = NoRet
  /\ UNCHANGED <<now, cache, accessVars, actionVars, posthogVars, ticks>>

\* ------------------------------------------------------------- createAction

\* ZActionInput: environmentId is an id, name and userId are strings.
ZActionInput(data) == ZId(data.environmentId)

Frame(c) == IF c \in DOMAIN calls THEN calls[c] ELSE Idle

InFlight == {c \in DOMAIN calls : calls[c].pc \in {"lookedUp", "haveClass"}}

\* getActionClassByEnvironmentIdAndName: the id of the action class, or Null.
getActionClassByEnvironmentIdAndName(environmentId, name) ==
  LET found == {i \in DOMAIN actionClasses :
                  /\ actionClasses[i].environmentId = environmentId
                  /\ actionClasses[i].name = name}
  IN IF found = {} THEN Null ELSE actionClasses[CHOOSE i \in found : TRUE].id

ActionTypeOf(name) ==
  IF name = "Exit Intent (Desktop)" \/ name = "50% Scroll" THEN "automatic" ELSE "code"

\* Lines 127-138: validate the input, then look the action class up.
createActionStart(c, data) ==
  /\ Frame(c).pc \in {"idle", "returned", "threw"}
  /\ Len(actions) + Cardinality(InFlight) < MaxWrites
  /\ calls' = (c :> (IF ~ZActionInput(data)
                     THEN [pc |-> "threw", data |-> data, error |-> "ValidationError"]
                     ELSE [pc |-> "lookedUp", data |-> data,
                           actionClassId |->
                             getActionClassByEnvironmentIdAndName(data.environmentId,
                                                                  data.name)]))
               @@ calls
  /\ ret' = NoRet
  /\ UNCHANGED <<now, cache, reads, accessVars, actionClasses, actions, posthogVars, ticks>>

\* Lines 140-146: no action class was found, so one is created.  The table has a
\* unique (name, environmentId): a second row is refused, and createAction rethrows
\* the known request error as a DatabaseError.
createActionCreateClass(c) ==
  /\ Frame(c).pc = "lookedUp"
  /\ calls[c].actionClassId = Null
  /\ LET data == calls[c].data
         id == ActionClassIdAt(Len(actionClasses) + 1)
     IN IF getActionClassByEnvironmentIdAndName(data.environmentId, data.name) # Null
        THEN /\ calls' = [calls EXCEPT ![c] = [pc |-> "threw", data |-> data,
                                               error |-> "DatabaseError"]]
             /\ UNCHANGED <<actionClasses, cache>>
        ELSE /\ actionClasses' = Append(actionClasses,
                                        [id |-> id, environmentId |-> data.environmentId,
                                         name |-> data.name, type |-> ActionTypeOf(data.name)])
             /\ cache' = Revalidated(cache, {actionClassCacheTagById(id)})
             /\ calls' = [calls EXCEPT ![c] = [pc |-> "haveClass", data |-> data,
                                               actionClassId |-> id]]
  /\ ret' = NoRet
  /\ UNCHANGED <<now, reads, accessVars, actions, posthogVars, ticks>>

\* Lines 148-164: the action row, connected to the person and the action class.  With
\* no person of that (environmentId, userId) the connect fails, and createAction
\* rethrows the known request error as a DatabaseError.
createActionCreateRow(c) ==
  /\ \/ Frame(c).pc = "haveClass"
     \/ Frame(c).pc = "lookedUp" /\ calls[c].actionClassId # Null
  /\ LET data == calls[c].data
         index == Len(actions) + 1
     IN IF <<data.environmentId, data.userId>> \notin DOMAIN PersonOf
        THEN /\ calls' = [calls EXCEPT ![c] = [pc |-> "threw", data |-> data,
                                               error |-> "DatabaseError"]]
             /\ actions' = actions
        ELSE /\ actions' = Append(actions,
                                  [id |-> ActionIdAt(index), createdAt |-> now,
                                   personId |-> PersonOf[<<data.environmentId, data.userId>>],
                                   actionClassId |-> calls[c].actionClassId])
             /\ calls' = [calls EXCEPT ![c] = [pc |-> "created", data |-> data,
                                               actionClassId |-> calls[c].actionClassId,
                                               action |-> index]]
  /\ ret' = NoRet
  /\ UNCHANGED <<now, cache, reads, accessVars, actionClasses, posthogVars, ticks>>

activePersonCacheTagById(personId) == "people-" \o personId \o "-active"

\* Lines 166-174: the tags createAction invalidates.
createActionRevalidated(environmentId, personId, isPersonMonthlyActive) ==
  (IF ~isPersonMonthlyActive THEN {activePersonCacheTagById(personId)} ELSE {})
    \cup {actionCacheTagByEnvironmentId(environmentId), actionCacheTagByPersonId(personId)}

\* Lines 166-182: the invalidation, and the action is returned.  dropped (how many
\* cache entries the invalidation removed) is history the program does not read.
createActionFinish(c, isPersonMonthlyActive) ==
  /\ Frame(c).pc = "created"
  /\ cache' = Revalidated(cache,
                          createActionRevalidated(calls[c].data.environmentId,
                                                  actions[calls[c].action].personId,
                                                  isPersonMonthlyActive))
  /\ calls' = [calls EXCEPT ![c] = [pc |-> "returned", action |-> calls[c].action,
                                    dropped |-> Cardinality(DOMAIN cache \ DOMAIN cache')]]
  /\ ret' = NoRet
  /\ UNCHANGED <<now, reads, accessVars, actionClasses, actions, posthogVars, ticks>>

MaxWriteTicks == 1

Callers == 1..NumCallers

WriteInputs ==
  { [environmentId |-> "e1", name |-> "click", userId |-> "u1"],
    [environmentId |-> "e1", name |-> "click", userId |-> "u2"] }

\* Inputs createAction refuses: an environmentId that is no id, a user without a
\* person in the environment.
RefusedInputs ==
  { [environmentId |-> BadId, name |-> "click", userId |-> "u1"],
    [environmentId |-> "e2", name |-> "click", userId |-> "u2"] }

InitWrite == now = 0 /\ InitCache /\ InitAccessTables /\ InitActionTables /\ InitPosthog

\* createAction and the lists it invalidates.
NextWrite ==
  \/ \E c \in {1}, data \in WriteInputs \cup RefusedInputs : createActionStart(c, data)
  \/ \E c \in {1} : createActionCreateClass(c)
  \/ \E c \in {1} : createActionCreateRow(c)
  \/ \E c \in {1}, active \in BOOLEAN : createActionFinish(c, active)
  \/ \E r \in Readers, personId \in {"p1"}, page \in {NoPage, PageNumber(1)} :
       getActionsByPersonId(r, personId, page)
  \/ \E r \in Readers : getActionsByPersonIdFindMany(r)
  \/ \E r \in Readers, environmentId \in {"e1"}, page \in {NoPage} :
       getActionsByEnvironmentId(r, environmentId, page)
  \/ \E r \in Readers : getActionsByEnvironmentIdFindMany(r)
  \/ \E r \in Readers : UnstableCacheStore(r)
  \/ \E dt \in {1} : Tick(dt, MaxWriteTicks)

SpecWrite == InitWrite /\ [][NextWrite]_vars

\* One action class with one action of person p1, created a week ago.
InitStale ==
  /\ now = WeekMs
  /\ InitCache /\ InitAccessTables /\ InitPosthog
  /\ actionClasses = << [id |-> ActionClassIdAt(1), environmentId |-> "e1",
                        name |-> "click", type |-> "code"] >>
  /\ actions = << [id |-> ActionIdAt(1), createdAt |-> 0, personId |-> "p1",
                   actionClassId |-> ActionClassIdAt(1)] >>
  /\ calls = <<>>

\* createAction and the reads of one action class and one person.
NextStale ==
  \/ \E c \in {1}, data \in {d \in WriteInputs : d.userId = "u1"} : createActionStart(c, data)
  \/ \E c \in {1} : createActionCreateRow(c)
  \/ \E c \in {1}, active \in BOOLEAN : createActionFinish(c, active)
  \/ \E r \in Readers : getTotalOccurrencesForAction(r, ActionClassIdAt(1), "p1")
  \/ \E r \in Readers : getTotalOccurrencesForActionCount(r)
  \/ \E r \in Readers : getActionCountInLastWeek(r, ActionClassIdAt(1), "p1")
  \/ \E r \in Readers : getActionCountInLastMonth(r, ActionClassIdAt(1), "p1")
  \/ \E r \in Readers : getActionCountInLastQuarter(r, ActionClassIdAt(1), "p1")
  \/ \E r \in Readers : ActionCountCutoff(r)
  \/ \E r \in Readers : ActionCountQuery(r)
  \/ \E r \in Readers : getLastOccurrenceDaysAgo(r, ActionClassIdAt(1), "p1")
  \/ \E r \in Readers : getFirstOccurrenceDaysAgo(r, ActionClassIdAt(1), "p1")
  \/ \E r \in Readers : OccurrenceFindFirst(r)
  \/ \E r \in Readers : UnstableCacheStore(r)

SpecStale == InitStale /\ [][NextStale]_vars

\* Concurrent createAction calls.
NextRace ==
  \/ \E c \in Callers, data \in WriteInputs : createActionStart(c, data)
  \/ \E c \in Callers : createActionCreateClass(c)
  \/ \E c \in Callers : createActionCreateRow(c)
  \/ \E c \in Callers, active \in BOOLEAN : createActionFinish(c, active)

SpecRace == InitWrite /\ [][NextRace]_vars

\* The windowed counts over every table the program can have built, from an instant
\* more than a week after the oldest row; actions are created meanwhile.
MaxCountRows == 2
MaxCountTicks == 1

CountNow == 7 * 24 * 60 * 60 * 1000 + 1

CountClasses ==
  << [id |-> ActionClassIdAt(1), environmentId |-> "e1", name |-> "click", type |-> "code"],
     [id |-> ActionClassIdAt(2), environmentId |-> "e1", name |-> "50% Scroll",
      type |-> "automatic"] >>

CountRowKinds ==
  { [personId |-> "p2", actionClassId |-> ActionClassIdAt(1)],
    [personId |-> "p1", actionClassId |-> ActionClassIdAt(2)] }

CountTimes ==
  { CountNow - WeekMs - 1, CountNow - WeekMs, CountNow - DayMs - 1, CountNow - DayMs,
    CountNow - HourMs - 1, CountNow - HourMs }

CountTables ==
  UNION { { [i \in 1..n |-> [id |-> ActionIdAt(i), createdAt |-> t[i],
                             personId |-> k[i].personId,
                             actionClassId |-> k[i].actionClassId]] :
              t \in {u \in [1..n -> CountTimes] : \A i \in 1..n, j \in 1..n : i < j => u[i] <= u[j]},
              k \in [1..n -> CountRowKinds] } : n \in 0..MaxCountRows }

InitCount ==
  /\ now = CountNow
  /\ InitCache /\ InitAccessTables /\ InitPosthog
  /\ actionClasses = CountClasses
  /\ actions \in CountTables
  /\ calls = <<>>

CountTicks == {1}

NextCount ==
  \/ \E r \in Readers : getActionCountInLastHour(r, ActionClassIdAt(1))
  \/ \E r \in Readers : getActionCountInLast24Hours(r, ActionClassIdAt(1))
  \/ \E r \in Readers : getActionCountInLast7Days(r, ActionClassIdAt(1))
  \/ \E r \in Readers : ActionCountCutoff(r)
  \/ \E r \in Readers : ActionCountQuery(r)
  \/ \E r \in Readers : UnstableCacheStore(r)
  \/ \E c \in {1}, data \in {d \in WriteInputs : d.userId = "u1"} : createActionStart(c, data)
  \/ \E c \in {1} : createActionCreateRow(c)
  \/ \E c \in {1}, active \in {TRUE} : createActionFinish(c, active)
  \/ \E dt \in CountTicks : Tick(dt, MaxCountTicks)

SpecCount == InitCount /\ [][NextCount]_vars

\* ------------------------------------------------------------------ PostHog

\* revalidate of sendFreeLimitReachedEventToPosthogBiWeekly: fifteen days, in seconds.
BiWeeklyRevalidate == 60 * 60 * 24 * 15

MaxPosthogTicks == 1
MaxCaptures == 2

sendKey(environmentId, plan) ==
  "sendFreeLimitReachedEventToPosthogBiWeekly-" \o plan \o "-" \o environmentId

\* Mutant: the catch swallows the error and the callback still returns "success".
sendCallbackSwallows(captureOk) == [status |-> "ok", value |-> "success"]

\* The callback (lines 10-20): "success" after the capture, the error rethrown.
sendCallback(captureOk) ==
  IF captureOk THEN [status |-> "ok", value |-> "success"]
  ELSE [status |-> "error", value |-> "capture failed"]

SendFrame(c) == IF c \in DOMAIN sends THEN sends[c] ELSE Idle

\* The call starts: a fresh entry is returned, otherwise the callback starts.
\* afterThrow (this caller's previous call for the same key threw) is history.
sendStart(c, environmentId, plan) ==
  LET key == sendKey(environmentId, plan)
      old == SendFrame(c)
      afterThrow == old.pc = "threw" /\ old.key = key
  IN /\ old.pc \in {"idle", "returned", "threw"}
     /\ Len(captured) < MaxCaptures
     /\ sends' = (c :> (IF Fresh(key, BiWeeklyRevalidate)
                        THEN [pc |-> "returned", key |-> key, value |-> cache[key].value,
                              hit |-> TRUE, afterThrow |-> afterThrow]
                        ELSE [pc |-> "capturing", key |-> key, environmentId |-> environmentId,
                              plan |-> plan, afterThrow |-> afterThrow]))
                 @@ sends
     /\ ret' = NoRet
     /\ UNCHANGED <<now, cache, reads, accessVars, actionVars, captured, ticks>>

\* capturePosthogEnvironmentEvent settles: the event reached PostHog, or it failed.
sendCapture(c, captureOk) ==
  /\ SendFrame(c).pc = "capturing"
  /\ captured' = IF captureOk
                 THEN Append(captured, [environmentId |-> sends[c].environmentId,
                                        event |-> "free limit reached",
                                        plan |-> sends[c].plan, at |-> now])
                 ELSE captured
  /\ sends' = [sends EXCEPT ![c] = [pc |-> "settled", key |-> sends[c].key,
                                    outcome |-> sendCallback(captureOk),
                                    afterThrow |-> sends[c].afterThrow]]
  /\ ret' = NoRet
  /\ UNCHANGED <<now, cache, reads, accessVars, actionVars, ticks>>

\* The cache stores what the callback returned; what it threw goes to the caller.
sendReturn(c) ==
  /\ SendFrame(c).pc = "settled"
  /\ LET f == sends[c] IN
     IF f.outcome.status = "ok"
     THEN /\ cache' = Stored(f.key, f.outcome.value, {}, [at |-> now])
          /\ sends' = [sends EXCEPT ![c] = [pc |-> "returned", key |-> f.key,
                                            value |-> f.outcome.value, hit |-> FALSE,
                                            afterThrow |-> f.afterThrow]]
     ELSE /\ cache' = cache
          /\ sends' = [sends EXCEPT ![c] = [pc |-> "threw", key |-> f.key,
                                            error |-> f.outcome.value]]
  /\ ret' = NoRet
  /\ UNCHANGED <<now, reads, accessVars, actionVars, captured, ticks>>

PosthogInputs == {<<"e1", "inAppSurvey">>, <<"e1", "userTargeting">>}

PosthogTicks == {1, BiWeeklyRevalidate * SecondMs}

PosthogHorizon == BiWeeklyRevalidate * SecondMs + 1

InitSend == now = 0 /\ InitCache /\ InitAccessTables /\ InitActionTables /\ InitPosthog

NextSend ==
  \/ \E c \in Callers, in \in PosthogInputs : sendStart(c, in[1], in[2])
  \/ \E c \in Callers, captureOk \in BOOLEAN : sendCapture(c, captureOk)
  \/ \E c \in Callers : sendReturn(c)
  \/ \E dt \in PosthogTicks : TickWithin(dt, MaxPosthogTicks, PosthogHorizon)

SpecSend == InitSend /\ [][NextSend]_vars

\* The lists over every table the program can have built: rows are inserted with
\* createdAt = now, so table order is by non-decreasing createdAt, and an action's
\* person and action class are of one environment.
ListClasses ==
  << [id |-> ActionClassIdAt(1), environmentId |-> "e1", name |-> "click", type |-> "code"],
     [id |-> ActionClassIdAt(2), environmentId |-> "e2", name |-> "50% Scroll",
      type |-> "automatic"] >>

ListRowKinds ==
  { [personId |-> "p1", actionClassId |-> ActionClassIdAt(1)],
    [personId |-> "p2", actionClassId |-> ActionClassIdAt(1)],
    [personId |-> "p3", actionClassId |-> ActionClassIdAt(2)] }

ListTimes == {0, 1}

ListTables ==
  UNION { { [i \in 1..n |-> [id |-> ActionIdAt(i), createdAt |-> t[i],
                             personId |-> k[i].personId,
                             actionClassId |-> k[i].actionClassId]] :
              t \in {u \in [1..n -> ListTimes] : \A i \in 1..n, j \in 1..n : i < j => u[i] <= u[j]},
              k \in [1..n -> ListRowKinds] } : n \in 0..MaxActions }

InitList ==
  /\ now = 1
  /\ InitCache /\ InitAccessTables /\ InitPosthog
  /\ actionClasses = ListClasses
  /\ actions \in ListTables
  /\ calls = <<>>

ListPages == {NoPage, PageNumber(1), PageNumber(2)}

ListInvalidInputs ==
  { [environmentId |-> BadId, name |-> "click", userId |-> "u1"] }

NextList ==
  \/ \E r \in Readers, personId \in {"p1", BadId}, page \in ListPages \cup {PageString(1)} :
       getActionsByPersonId(r, personId, page)
  \/ \E r \in Readers : getActionsByPersonIdFindMany(r)
  \/ \E r \in Readers, environmentId \in {"e1"}, page \in {NoPage, PageNumber(1)} :
       getActionsByEnvironmentId(r, environmentId, page)
  \/ \E r \in Readers : getActionsByEnvironmentIdFindMany(r)
  \/ \E r \in Readers : UnstableCacheStore(r)
  \/ \E c \in {1}, data \in ListInvalidInputs : createActionStart(c, data)

SpecList == InitList /\ [][NextList]_vars

\* ================================================================ claims

IsAccessCheck == ret.op \in {"canUserAccessWebhook", "canUserAccessAttributeClass"}

\* The entity table the check named in ret reads.
EntityTable ==
  IF ret.op = "canUserAccessWebhook" THEN webhooks ELSE attributeClasses

\* The environment of the entity of the call in the current table, Null without one.
EntityNow ==
  IF ret.args[2] \in DOMAIN EntityTable THEN EntityTable[ret.args[2]] ELSE Null

\* C1: a permission check with valid ids that is computed (a cache miss) succeeds,
\* and returns true exactly when the entity it read exists and
\* hasUserEnvironmentAccess returned true for the entity's environment.
C1_MissDecision ==
  (IsAccessCheck /\ ~ret.hit /\ ZId(ret.args[1]) /\ ZId(ret.args[2])) =>
    /\ ret.status = "ok"
    /\ ret.value <=> (ret.seen.entity # Null /\ ret.seen.access)

\* A check computed on a miss that found the entity and the user's access and
\* returned true.
C1_Witness ==
  /\ IsAccessCheck /\ ~ret.hit /\ ret.status = "ok"
  /\ ret.value = TRUE
  /\ ret.seen.entity # Null
  /\ ret.seen.access

\* C4: a cached decision is served only while no more than
\* SERVICES_REVALIDATION_INTERVAL has passed since it was computed, and only until
\* the entity's tag is invalidated: a decision served from the cache was computed
\* less than one interval ago, from the entity as it still is.
C4_ServedWithinInterval ==
  (IsAccessCheck /\ ret.status = "ok" /\ ret.hit) =>
    /\ ret.at - ret.seen.at < SERVICES_REVALIDATION_INTERVAL * SecondMs
    /\ ret.seen.entity = EntityNow

IsList == ret.op \in ListOps

\* The rows a list call is about, read off the tables.
ListMatches ==
  {i \in DOMAIN actions :
     IF ret.op = "getActionsByPersonId" THEN actions[i].personId = ret.args[1]
     ELSE \E c \in DOMAIN actionClasses :
            /\ actionClasses[c].id = actions[i].actionClassId
            /\ actionClasses[c].environmentId = ret.args[1]}

\* The ids of a list, in order.
IdsOf(list) == [i \in DOMAIN list |-> list[i].id]

\* No id comes twice in a sequence of ids.
NoRepeat(ids) == \A i \in DOMAIN ids, j \in DOMAIN ids : ids[i] = ids[j] => i = j

\* C9: a list is ordered by createdAt descending and holds Dates; without a page it
\* is every matching action exactly once; a page p >= 1 has at most ITEMS_PER_PAGE
\* elements; and pages 1 and 2 of a list of at most 2 * ITEMS_PER_PAGE actions,
\* taken from the same table, together are the full list, no action missing or
\* repeated.
C9_Pagination ==
  /\ (IsList /\ ret.status = "ok") =>
       LET v == ret.value
       IN /\ \A i \in DOMAIN v, j \in DOMAIN v :
               i < j => v[i].createdAt.ms >= v[j].createdAt.ms
          /\ \A i \in DOMAIN v : v[i].createdAt.kind = "Date"
          /\ ret.args[2] = NoPage =>
               /\ Len(v) = Cardinality(ListMatches)
               /\ {v[i].id : i \in DOMAIN v} = {actions[i].id : i \in ListMatches}
          /\ (ret.args[2].kind = "number" /\ ret.args[2].num >= 1) =>
               Len(v) <= ITEMS_PER_PAGE
  /\ LET k1 == getActionsByPersonIdKey("p1", PageNumber(1))
         k2 == getActionsByPersonIdKey("p1", PageNumber(2))
         pages == IdsOf(cache[k1].value) \o IdsOf(cache[k2].value)
         ofPerson == {i \in DOMAIN actions : actions[i].personId = "p1"}
     IN ({k1, k2} \subseteq DOMAIN cache /\ Cardinality(ofPerson) <= 2 * ITEMS_PER_PAGE)
          => /\ NoRepeat(pages)
             /\ {pages[i] : i \in DOMAIN pages} = {actions[i].id : i \in ofPerson}

IsWindowCount == ret.op \in WindowOps

\* The window of the call in ret, in milliseconds.
WindowOfRet ==
  CASE ret.op = "getActionCountInLastHour" -> HourMs
    [] ret.op = "getActionCountInLast24Hours" -> DayMs
    [] ret.op = "getActionCountInLast7Days" -> WeekMs

\* C5: a windowed count computed at time t (a cache miss; t is the callback's
\* Date.now()) is the number of actions of the action class, of any person, in the
\* table when the database ran the count, that are not older than t minus the
\* window: all the class's actions but those created strictly before the cutoff.
C5_WindowCount ==
  (IsWindowCount /\ ret.status = "ok" /\ ~ret.hit) =>
    LET ofClass == {i \in 1..ret.seen.rows : actions[i].actionClassId = ret.args[1]}
        older == {i \in ofClass : actions[i].createdAt < ret.seen.at - WindowOfRet}
    IN ret.value = Cardinality(ofClass) - Cardinality(older)

\* A count that includes an action created exactly at the cutoff and leaves out one
\* created a millisecond before it, returned after the clock has moved on.
C5_Witness ==
  /\ IsWindowCount /\ ret.status = "ok" /\ ~ret.hit
  /\ ret.value = 1
  /\ ret.at > ret.seen.at
  /\ \E i \in DOMAIN actions, j \in DOMAIN actions :
       /\ actions[i].actionClassId = ret.args[1]
       /\ actions[j].actionClassId = ret.args[1]
       /\ actions[i].createdAt = ret.seen.at - WindowOfRet
       /\ actions[j].createdAt = ret.seen.at - WindowOfRet - 1

\* The createAction call that inserted row i has returned.
Completed(i) == ~\E c \in DOMAIN calls : calls[c].pc = "created" /\ calls[c].action = i

EnvironmentOfAction(i) ==
  LET c == CHOOSE c \in DOMAIN actionClasses : actionClasses[c].id = actions[i].actionClassId
  IN actionClasses[c].environmentId

\* C2: once createAction has returned, the cache holds no list of the action's
\* environment or person that was computed before the action was inserted, so the
\* unpaginated lists in the cache contain the action.
C2_ListsRecomputed ==
  \A i \in DOMAIN actions :
    Completed(i) =>
      LET environmentId == EnvironmentOfAction(i)
          personId == actions[i].personId
      IN /\ \A k \in DOMAIN cache :
              (cache[k].tags \cap {actionCacheTagByEnvironmentId(environmentId),
                                   actionCacheTagByPersonId(personId)} # {})
                => cache[k].seen.rows >= i
         /\ \A k \in {getActionsByEnvironmentIdKey(environmentId, NoPage),
                      getActionsByPersonIdKey(personId, NoPage)} \cap DOMAIN cache :
              \E j \in DOMAIN cache[k].value : cache[k].value[j].id = actions[i].id

IsPersonActionRead ==
  ret.op \in {"getTotalOccurrencesForAction"} \cup CalendarOps \cup DaysAgoOps

\* C3: after createAction has returned, a read of the action's class and person is
\* never served from an entry stored before the action was inserted.
C3_CountsInvalidated ==
  (IsPersonActionRead /\ ret.status = "ok" /\ ret.hit) =>
    \A i \in DOMAIN actions :
      (/\ Completed(i)
       /\ actions[i].actionClassId = ret.args[1]
       /\ actions[i].personId = ret.args[2]) => ret.rows >= i

\* The arguments of the read in ret pass validation.
ReadArgsValid ==
  CASE IsList -> ZId(ret.args[1]) /\ ZOptionalNumber(ret.args[2])
    [] OTHER -> \A i \in DOMAIN ret.args : ZId(ret.args[i])

\* C6: a call whose argument is invalid fails, issues no database operation and
\* stores nothing in the cache; createAction with invalid data throws at once.
C6_InvalidArgumentsFail ==
  /\ (ret.op # "none" /\ ~ReadArgsValid) =>
       (ret.status = "error" /\ ret.dbOps = 0 /\ ~ret.stored)
  /\ \A c \in DOMAIN calls :
       (calls[c].pc \notin {"idle", "returned"} /\ ~ZActionInput(calls[c].data)) =>
         (calls[c].pc = "threw" /\ calls[c].error = "ValidationError")

\* C10: at most one action class per (environmentId, name), no call with valid data
\* fails, and every action is connected to the action class of its call's name.
C10_OneClassEveryCallSucceeds ==
  /\ \A i \in DOMAIN actionClasses, j \in DOMAIN actionClasses :
       (/\ actionClasses[i].environmentId = actionClasses[j].environmentId
        /\ actionClasses[i].name = actionClasses[j].name) => i = j
  /\ \A c \in DOMAIN calls :
       (calls[c].pc = "threw") => ~ZActionInput(calls[c].data)
  /\ \A c \in DOMAIN calls :
       calls[c].pc = "created" =>
         actions[calls[c].action].actionClassId =
           getActionClassByEnvironmentIdAndName(calls[c].data.environmentId,
                                                calls[c].data.name)

\* C7: two captures of one (plan, environmentId) are at least fifteen days apart.
C7_OncePerWindow ==
  \A i \in DOMAIN captured, j \in DOMAIN captured :
    (/\ i < j
     /\ captured[i].plan = captured[j].plan
     /\ captured[i].environmentId = captured[j].environmentId)
      => captured[j].at - captured[i].at >= BiWeeklyRevalidate * SecondMs

\* C8: a failed capture is rethrown and leaves nothing in the cache: every cached
\* "success" follows a capture that reached PostHog, a call is served from the cache
\* only after such a capture, and a caller that threw is not suppressed by it.
C8_FailureNotCached ==
  /\ \A k \in DOMAIN cache :
       \E i \in DOMAIN captured :
         /\ sendKey(captured[i].environmentId, captured[i].plan) = k
         /\ captured[i].at <= cache[k].storedAt
         /\ cache[k].value = "success"
  /\ \A c \in DOMAIN sends :
       /\ (sends[c].pc = "returned" /\ sends[c].hit) =>
            \E i \in DOMAIN captured :
              sendKey(captured[i].environmentId, captured[i].plan) = sends[c].key
       /\ (sends[c].pc = "settled" /\ sends[c].outcome.status = "error") =>
            sends[c].outcome.value = "capture failed"
       /\ sends[c].pc = "threw" => sends[c].error = "capture failed"

\* A caller whose capture failed called again for the same key, was not served from
\* the cache, and this time the event was captured.
C8_Witness ==
  \E c \in DOMAIN sends :
    /\ sends[c].pc = "returned"
    /\ sends[c].afterThrow
    /\ ~sends[c].hit
    /\ Len(captured) = 1

====
